---- MODULE Spec2Model ----
(***************************************************************************)
(* Model of the link-verification engine of substack_link_checker.py:      *)
(* the domain policy, the link cache, the retry controller                 *)
(* (check_link_with_retry), the transport probe classification             *)
(* (_check_link_once), the bounded-concurrency dispatcher                  *)
(* (check_links_batch) and the post loop of run_async with its history of  *)
(* checked posts.                                                          *)
(*                                                                         *)
(* Strings that the code inspects (URL network locations, policy entries)  *)
(* are sequences of one-character strings, so that lower(), == and         *)
(* endswith() are computed as Python computes them.                        *)
(***************************************************************************)
EXTENDS Integers, Sequences, FiniteSets, TLC

\* ------------------------------------------------------------------ bounds
\* longest link list handed to one batch
MaxLinks == 2
\* number of links dispatched in one run, over all its batches
MaxChecks == 3
\* number of single calls in a sequence of calls
MaxCalls == 1
\* largest configured concurrency
MaxConcurrency == 2
\* largest configured max_retries of a sequence of single calls
MaxRetriesBound == 2
\* longest list of posts handed to one run
MaxPosts == 2

\* ------------------------------------------------------- strings and URLs
\* the letters str.lower() changes, and what it changes them to
UpperCase ==
    <<"A", "B", "C", "D", "E", "F", "G", "H", "I", "J", "K", "L", "M",
      "N", "O", "P", "Q", "R", "S", "T", "U", "V", "W", "X", "Y", "Z">>

LowerCase ==
    <<"a", "b", "c", "d", "e", "f", "g", "h", "i", "j", "k", "l", "m",
      "n", "o", "p", "q", "r", "s", "t", "u", "v", "w", "x", "y", "z">>

\* the lower-case letter of every upper-case one
LowerOf ==
    [ c \in { UpperCase[i] : i \in 1..Len(UpperCase) } |->
        LowerCase[CHOOSE i \in 1..Len(UpperCase) : UpperCase[i] = c] ]

\* str.lower() on one character of the sampled URLs and titles
LowerChar(c) == IF c \in DOMAIN LowerOf THEN LowerOf[c] ELSE c

Lower(s) == [i \in 1..Len(s) |-> LowerChar(s[i])]

\* str.endswith(suffix)
EndsWith(s, suffix) ==
    /\ Len(suffix) <= Len(s)
    /\ SubSeq(s, Len(s) - Len(suffix) + 1, Len(s)) = suffix

\* The sampled URLs.  A URL is what urlparse splits it into: the host and
\* the port text between "//" and the path (no userinfo in the samples).
UrlTable ==
    <<  [host |-> <<"a", ".", "i", "o">>,           port |-> <<>>],
        [host |-> <<"b", ".", "i", "o">>,           port |-> <<"8", "0">>],
        [host |-> <<"X", ".", "b", ".", "i", "o">>, port |-> <<>>],
        [host |-> <<"w", ".", "o", "r", "g">>,      port |-> <<>>],
        [host |-> <<"b", ".", "i", "o">>,           port |-> <<>>],
        [host |-> <<"a", "b", ".", "i", "o">>,      port |-> <<>>]  >>

UrlIds == 1..Len(UrlTable)

\* urlparse(url).netloc: host, and ":" port when the URL names a port
netloc(u) ==
    IF UrlTable[u].port = <<>> THEN UrlTable[u].host
    ELSE UrlTable[u].host \o <<":">> \o UrlTable[u].port

\* urlparse(url).netloc.lower() of the sampled URLs
domain == [u \in UrlIds |-> Lower(netloc(u))]

\* the policy entries of the sampled configurations
D_b_io   == <<"b", ".", "i", "o">>
D_x_b_io == <<"x", ".", "b", ".", "i", "o">>
D_w_org  == <<"w", ".", "o", "r", "g">>

\* domain == entry or domain.endswith('.' + entry)
DomainMatches(dom, entry) ==
    dom = entry \/ EndsWith(dom, <<".">> \o entry)

should_skip_domain(conf, u) ==
    IF conf.skip_domains = {} THEN FALSE
    ELSE \E d \in conf.skip_domains : DomainMatches(domain[u], d)

is_broken_domain(conf, u) ==
    IF conf.broken_domains = {} THEN FALSE
    ELSE \E d \in conf.broken_domains : DomainMatches(domain[u], d)

\* ------------------------------------------------------ transport probe
\* f"HTTP {response.status}" for the sampled statuses
HttpReason(status) ==
    CASE status = 400 -> "HTTP 400"
      [] status = 403 -> "HTTP 403"
      [] status = 404 -> "HTTP 404"
      [] status = 499 -> "HTTP 499"
      [] status = 500 -> "HTTP 500"
      [] status = 503 -> "HTTP 503"
      [] status = 599 -> "HTTP 599"
      [] OTHER        -> "HTTP other"

\* "needle in haystack" for strings
Contains(haystack, needle) ==
    \E i \in 1..(Len(haystack) - Len(needle) + 1) :
        SubSeq(haystack, i, i + Len(needle) - 1) = needle

SOFT_404_PATTERNS ==
    { <<"4", "0", "4", " ", "e", "r", "r", "o", "r">>,
      <<"p", "a", "g", "e", " ", "n", "o", "t", " ", "f", "o", "u", "n", "d">>,
      <<"n", "o", "t", " ", "f", "o", "u", "n", "d">>,
      <<"4", "0", "4">>,
      <<"p", "a", "g", "e", " ", "d", "o", "e", "s", "n", "'", "t", " ", "e", "x", "i", "s", "t">>,
      <<"p", "a", "g", "e", " ", "d", "o", "e", "s", " ", "n", "o", "t", " ", "e", "x", "i", "s", "t">>,
      <<"n", "o", " ", "l", "o", "n", "g", "e", "r", " ", "a", "v", "a", "i", "l", "a", "b", "l", "e">>,
      <<"h", "a", "s", " ", "b", "e", "e", "n", " ", "r", "e", "m", "o", "v", "e", "d">>,
      <<"c", "o", "u", "l", "d", "n", "'", "t", " ", "f", "i", "n", "d">>,
      <<"c", "o", "u", "l", "d", " ", "n", "o", "t", " ", "f", "i", "n", "d">> }

\* The body of a response, as the soft-404 test sees it: response.text()
\* or the parser raises ("unreadable"), the document has no <title>
\* ("notitle"), or it has one with this text ("title").
Body(kind, title) == [kind |-> kind, title |-> title]

NoTitle == Body("notitle", << >>)

Unreadable == Body("unreadable", << >>)

\* the sampled titles
T_404_error ==
    <<"4", "0", "4", " ", "E", "r", "r", "o", "r", " ", "-", " ",
      "P", "a", "g", "e", " ", "N", "o", "t", " ", "F", "o", "u", "n", "d">>

T_home == <<"H", "o", "m", "e">>

T_gone ==
    <<"N", "O", " ", "L", "O", "N", "G", "E", "R", " ",
      "A", "V", "A", "I", "L", "A", "B", "L", "E">>

T_40_4 == <<"R", "o", "u", "t", "e", " ", "4", "0", " ", "4", " ", "s", "a", "l", "e">>

T_4040 == <<"M", "o", "d", "e", "l", " ", "4", "0", "4", "0">>

T_found == <<"L", "o", "s", "t", " ", "&", " ", "F", "o", "u", "n", "d">>

Titles == { T_404_error, T_home, T_gone, T_40_4, T_4040, T_found }

\* a title that does not let the lowered phrase show
SoftTitle_case_sensitive(body) ==
    /\ body.kind = "title"
    /\ \E phrase \in SOFT_404_PATTERNS : Contains(body.title, phrase)

\* the inner try of _check_link_once: True when the title, lowered, holds
\* one of the phrases; an exception in it is swallowed
SoftTitle(body) ==
    /\ body.kind = "title"
    /\ \E phrase \in SOFT_404_PATTERNS : Contains(Lower(body.title), phrase)

\* What one GET can come back with: an exception of some kind, or a
\* response with a status and a body.  The kinds of exception:
\*   "timeout"          asyncio.TimeoutError
\*   "ssl"              aiohttp.ClientSSLError (certificate failures too)
\*   "dns_unknown"      ClientConnectorError, "Name or service not known"
\*   "dns_nodename"     ClientConnectorError, "nodename nor servname provided"
\*   "dns_temporary"    ClientConnectorError, "Temporary failure in name resolution"
\*   "refused"          ClientConnectorError, "Connection refused"
\*   "disconnected"     aiohttp.ServerDisconnectedError, a ClientError
\*   "other"            an exception that is no aiohttp.ClientError
Response(exc, status, body) == [exc |-> exc, status |-> status, body |-> body]

\* the exception is an aiohttp.ClientConnectorError and no ClientSSLError
IsConnectorError(exc) == exc \in {"dns_unknown", "dns_nodename", "dns_temporary", "refused"}

\* a test that recognises no message
IsDnsMessage_none(exc) == FALSE

\* 'Name or service not known' in error_str or 'nodename nor servname' in error_str
IsDnsMessage(exc) == exc \in {"dns_unknown", "dns_nodename"}

\* _check_link_once: (is_broken, error_type, should_retry)
Outcome(b, e, r) == [is_broken |-> b, error_type |-> e, should_retry |-> r]

\* a test that lets status 500 through to the next one
IsServerError_above(status) == status > 500

\* "if response.status >= 500"
IsServerError(status) == status >= 500

\* "if response.status >= 400"
IsHttpError(status) == status >= 400

\* The reasons built from an exception's text ("SSL Error: ...",
\* "Connection Error: ...", "Client Error: ...", "Unknown Error: ...") are
\* kept up to the colon.
_check_link_once(resp) ==
    CASE resp.exc = "timeout"       -> Outcome(TRUE, "Timeout", TRUE)
      [] resp.exc = "ssl"           -> Outcome(TRUE, "SSL Error", FALSE)
      [] IsConnectorError(resp.exc) ->
            IF IsDnsMessage(resp.exc) THEN Outcome(TRUE, "DNS Failure", FALSE)
            ELSE Outcome(TRUE, "Connection Error", TRUE)
      [] resp.exc = "disconnected"  -> Outcome(TRUE, "Client Error", TRUE)
      [] resp.exc = "other"         -> Outcome(TRUE, "Unknown Error", FALSE)
      [] OTHER ->
            IF resp.status = 404 THEN Outcome(TRUE, "HTTP 404", FALSE)
            ELSE IF IsServerError(resp.status)
                 THEN Outcome(TRUE, HttpReason(resp.status), TRUE)
            ELSE IF IsHttpError(resp.status)
                 THEN Outcome(TRUE, HttpReason(resp.status), FALSE)
            ELSE IF SoftTitle(resp.body)
                 THEN Outcome(TRUE, "Soft 404 (page title indicates error)", FALSE)
            ELSE Outcome(FALSE, "OK", FALSE)

\* the responses the probes of a batch run draw from
Responses ==
    { Response("none", 200, NoTitle),
      Response("none", 404, NoTitle),
      Response("none", 500, NoTitle) }

\* the responses the probes of a sequence of single calls draw from
ResponsesCall ==
    Responses \cup { Response("none", 503, NoTitle), Response("timeout", 0, NoTitle) }

\* the responses one probe is classified over: statuses on both sides of
\* every boundary, every kind of body, every kind of exception
ResponsesProbe ==
    { Response("none", s, b) :
        s \in {200, 301, 399},
        b \in {NoTitle, Unreadable} \cup { Body("title", t) : t \in Titles } }
    \cup { Response("none", s, Body("title", T_404_error)) :
              s \in {400, 403, 404, 499, 500, 503, 599} }
    \cup { Response(e, 0, NoTitle) :
              e \in {"timeout", "ssl", "dns_unknown", "dns_nodename", "dns_temporary",
                      "refused", "disconnected", "other"} }


\* ------------------------------------------------------------------ state
VARIABLES
    scope,          \* the inputs this run draws from: urls, responses, list length, links per run;
                    \* whether the history of single attempts is kept
    cfg,            \* constructor arguments: concurrency, max_retries, retry_delay, skip_domains, broken_domains
    link_cache,     \* self.link_cache: url -> LinkCheckResult
    stats,          \* self.stats
    results,        \* self.results
    phase,          \* "idle": between batches; "batch": inside check_links_batch
    via,            \* how the current batch was entered: "post" or "direct"
    post_idx,       \* number of batches completed in this run
    task,           \* the tasks of the current batch, in the order of links
    sem,            \* semaphore._value of the current batch
    broken_records, \* the list check_links_batch returned last
    started,        \* history: urls for which a check has been started in this run
    firstRet,       \* history: url -> result returned by the check of it that started first
    lastRet,        \* history: url -> result returned most recently by a check of it
    faulted,        \* history: some check of this run ended with an internal fault
    dispatched,     \* history: number of links handed to check_links_batch in this run
    run             \* run_async: its arguments, its position, self.checked_posts, the history file

vars == << scope, cfg, link_cache, stats, results, phase, via, post_idx, task, sem,
           broken_records, started, firstRet, lastRet, faulted, dispatched, run >>

\* LinkCheckResult(is_broken, error_type, from_cache=False)
LinkCheckResult(b, e, c) == [is_broken |-> b, error_type |-> e, from_cache |-> c]

\* a task that has no result yet
NoResult == LinkCheckResult(FALSE, "None", FALSE)

\* BrokenLinkRecord(post_title, post_url, broken_link, error_type); idx is the
\* position of the link in the batch (history, not a field of the record)
BrokenLinkRecord(post, link, e, idx) ==
    [post_url |-> post, broken_link |-> link, error_type |-> e, idx |-> idx]

\* self.stats after construction
ZeroStats ==
    [ total_links_checked |-> 0, cache_hits |-> 0, broken_links |-> 0,
      retries |-> 0, posts_skipped |-> 0, links_skipped |-> 0,
      links_auto_broken |-> 0 ]

\* one coroutine check_with_semaphore(link), before its first step
NewTask(u) ==
    [ link |-> u, pc |-> "wait", attempt |-> 0, delay |-> 0,
      last_error |-> "Unknown", result |-> NoResult,
      \* history of the call: the path it took, the number of calls of
      \* _check_link_once, the delays slept, the broken outcomes seen, the
      \* stats before and after its first step, and what was known of its
      \* url when it started; every response its probes got, with the
      \* classification _check_link_once returned for it; the cache entry
      \* of its url when it started
      path |-> "none", probes |-> 0, sleeps |-> <<>>, outs |-> <<>>,
      stats0 |-> ZeroStats, stats1 |-> ZeroStats,
      first |-> FALSE, priorDone |-> FALSE,
      priorRes |-> NoResult, cachedAtStart |-> FALSE,
      tried |-> <<>>, cachedRes |-> NoResult ]

\* dict assignment d[k] = v
Store(d, k, v) == [x \in (DOMAIN d) \cup {k} |-> IF x = k THEN v ELSE d[x]]


\* a cache that keeps the first result stored for a link
CacheStore_first(cache, u, r) == IF u \in DOMAIN cache THEN cache ELSE Store(cache, u, r)

\* a cache that stores the result marked as coming from the cache
CacheStore_cached(cache, u, r) == Store(cache, u, [r EXCEPT !.from_cache = TRUE])

\* self.link_cache[link] = result
CacheStore(cache, u, r) == Store(cache, u, r)

\* a lookup that finds only the links stored as broken
InCache_broken(cache, u) == u \in DOMAIN cache /\ cache[u].is_broken

\* a lookup that never finds the link
InCache_never(cache, u) == FALSE

\* link in self.link_cache
InCache(cache, u) == u \in DOMAIN cache

\* a counter whose increment is lost
Bump_lost(st, name) == st

\* a counter that counts every event twice
Bump_twice(st, name) == [st EXCEPT ![name] = @ + 2]

\* stats[name] += 1
Bump(st, name) == [st EXCEPT ![name] = @ + 1]


\* a semaphore with one slot too many
SemaphoreInit_extra(concurrency) == concurrency + 1

\* asyncio.Semaphore(self.concurrency)
SemaphoreInit(concurrency) == concurrency


\* a backoff that does not grow
NextDelay_same(delay) == delay

\* delay *= 2
NextDelay(delay) == delay * 2


\* the first error is kept instead of the last
UpdateLastError_first(last_error, error_type) ==
    IF last_error = "Unknown" THEN error_type ELSE last_error

\* last_error = error_type
UpdateLastError(last_error, error_type) == error_type


\* a hit that reports OK whatever the entry says
CachedResult_ok(cached) == LinkCheckResult(FALSE, "OK", TRUE)

\* a hit that reports the opposite of the entry
CachedResult_flipped(cached) == LinkCheckResult(~cached.is_broken, cached.error_type, TRUE)

\* a hit that hands out the stored object itself
CachedResult_same(cached) == cached

\* LinkCheckResult(cached.is_broken, cached.error_type, from_cache=True)
CachedResult(cached) == LinkCheckResult(cached.is_broken, cached.error_type, TRUE)

\* "for attempt in range(self.max_retries + 1)" has another iteration
LoopContinues(conf, attempt) == attempt + 1 < conf.max_retries + 1

\* the sampled policy configurations: (broken_domains, skip_domains)
Policy(b, s) == [broken |-> b, skip |-> s]

Policies == { Policy({D_b_io}, {D_w_org, D_x_b_io}) }

PoliciesCall ==
    { Policy({}, {}),
      Policy({D_b_io}, {D_w_org, D_x_b_io}),
      Policy({D_w_org}, {D_b_io}),
      Policy({D_b_io}, {}),
      Policy({}, {D_w_org}),
      Policy({D_b_io}, {D_b_io}) }

\* the sampled values of retry_delay
RetryDelays == {1}

RetryDelaysCall == {1, 3}

\* link lists of at most n links over the urls of the scope
LinkLists(urls, n) == UNION { [1..k -> urls] : k \in 0..n }

Config(c, m, d, p) ==
    [ concurrency |-> c, max_retries |-> m, retry_delay |-> d,
      skip_domains |-> p.skip, broken_domains |-> p.broken ]

\* "Remove duplicates while preserving order" of extract_links_from_post
RECURSIVE Unique(_)
Unique(s) ==
    IF s = <<>> THEN <<>>
    ELSE LET front == Unique(SubSeq(s, 1, Len(s) - 1))
             x     == s[Len(s)]
         IN IF \E i \in 1..Len(front) : front[i] = x THEN front
            ELSE Append(front, x)

\* the state after SubstackLinkChecker(...) has been constructed
Constructed ==
    /\ link_cache = << >>
    /\ stats = ZeroStats
    /\ results = << >>
    /\ phase = "idle"
    /\ via = "post"
    /\ post_idx = 0
    /\ task = << >>
    /\ sem = 0
    /\ broken_records = << >>
    /\ started = {}
    /\ firstRet = << >>
    /\ lastRet = << >>
    /\ faulted = FALSE
    /\ dispatched = 0

\* ---------------------------------------------------- history of posts
\* The history file as load_history finds it: missing, unreadable as JSON
\* ("corrupt"), or a document whose 'checked_posts' has these post urls.
HistoryFile(kind, posts) == [kind |-> kind, posts |-> posts]

\* run_async(url_file, history_file, only_new) before its first statement.
\* checked_posts maps a post url to the time it was marked: 0 for an entry
\* loaded from the file, the position of the post in the run otherwise.
\* log keeps, for every post the loop has taken up, the url, whether it was
\* a key of checked_posts then, whether its page could be fetched, its
\* links, and the part of self.results its batch added.  loads and saves
\* count the calls of load_history and save_history, saved is what the
\* history file holds after the last save_history that could write it,
\* broken_hits counts the cache hits that returned a broken entry.
RunState(only_new, tracking, file, supplied) ==
    [ pc |-> "start", has_source |-> TRUE, only_new |-> only_new, history_file |-> tracking,
      file |-> file, supplied |-> supplied, post_urls |-> supplied,
      history0 |-> << >>, checked_posts |-> << >>, loads |-> 0, saves |-> 0,
      broken_hits |-> 0,
      saved |-> [written |-> FALSE, posts |-> << >>], log |-> << >> ]

\* run_async(history_file, only_new) with neither url_file nor year
RunStateNoSource(only_new, tracking, file) ==
    [RunState(only_new, tracking, file, << >>) EXCEPT !.has_source = FALSE]

\* the checker is driven batch by batch, not by run_async
NotRunning == [RunState(FALSE, FALSE, HistoryFile("missing", {}), << >>) EXCEPT !.pc = "off"]

\* load_history raises: json.load returns a value that is not an object and
\* "data.get" fails with an AttributeError, which "except
\* (json.JSONDecodeError, IOError)" does not catch
load_history_raises(file) == file.kind = "not_object"

\* load_history: self.checked_posts after it, when it returns
load_history(checked, file) ==
    CASE file.kind = "missing" -> checked
      [] file.kind = "corrupt" -> << >>
      [] OTHER                 -> [p \in file.posts |-> 0]

\* a filter that also drops the repetitions of a url
filter_unchecked_posts_distinct(post_urls, checked) ==
    LET keep(u) == u \notin DOMAIN checked
        unchecked == Unique(SelectSeq(post_urls, keep))
    IN [unchecked |-> unchecked, skipped |-> Len(post_urls) - Len(unchecked)]

\* filter_unchecked_posts: the list it returns and what it stores in
\* stats['posts_skipped']
filter_unchecked_posts(post_urls, checked) ==
    LET keep(u) == u \notin DOMAIN checked
        unchecked == SelectSeq(post_urls, keep)
    IN [unchecked |-> unchecked, skipped |-> Len(post_urls) - Len(unchecked)]

\* mark_post_checked: self.checked_posts[post_url] = now
mark_post_checked(checked, post_url, now) == Store(checked, post_url, now)

\* the urls of a run of batches: two that no policy entry matches, one
\* that broken_domains matches and one that skip_domains matches
BatchUrls == {1, 2, 3, 4}

\* max_retries of a run of batches: no retry, or one
BatchRetries == {0, 1}

\* a run of two batches (a post, then another; or direct calls): up to
\* MaxLinks links at a time, MaxChecks in all
Init ==
    /\ scope = [ urls |-> BatchUrls, responses |-> Responses,
                 links |-> MaxLinks, checks |-> MaxChecks, posts |-> 2,
                 attempts |-> FALSE ]
    /\ cfg \in { Config(c, m, d, p) :
                 c \in 1..MaxConcurrency, m \in BatchRetries,
                 d \in RetryDelays, p \in Policies }
    /\ Constructed
    /\ run = NotRunning

\* a sequence of MaxCalls posts of one link each: check_link_with_retry is
\* called for one url at a time, over every sampled url, policy and response
InitCall ==
    /\ scope = [ urls |-> UrlIds, responses |-> ResponsesCall,
                 links |-> 1, checks |-> MaxCalls, posts |-> MaxCalls,
                 attempts |-> FALSE ]
    /\ cfg \in { Config(1, m, d, p) :
                 m \in 0..MaxRetriesBound, d \in RetryDelaysCall, p \in PoliciesCall }
    /\ Constructed
    /\ run = NotRunning


\* one call of check_link_with_retry for a url that no policy entry
\* matches, over every response a probe can get
InitProbe ==
    /\ scope = [ urls |-> {1}, responses |-> ResponsesProbe,
                 links |-> 1, checks |-> 1, posts |-> 1, attempts |-> TRUE ]
    /\ cfg \in { Config(1, m, 1, Policy({}, {})) : m \in {0, 1} }
    /\ Constructed
    /\ run = NotRunning

\* ------------------------------------------------- check_link_with_retry
\* The part of the engine that the first step of a task reads and writes.
Engine(st, tk, sm, sd, fr, lr) ==
    [stats |-> st, task |-> tk, sem |-> sm, started |-> sd, firstRet |-> fr, lastRet |-> lr]

\* history: a check of url u that started as the first one (or not) returns r
NoteReturn(E, t, r) ==
    LET u == E.task[t].link
    IN [E EXCEPT !.lastRet  = Store(@, u, r),
                 !.firstRet = IF E.task[t].first THEN Store(@, u, r) ELSE @]

\* A task acquires the semaphore and runs check_link_with_retry up to its
\* first suspension: the domain policy, the cache lookup, or the start of
\* the probe loop.  The policy and cache paths return at once and the task
\* goes on to the politeness sleep.
Enter(E, conf, cache, t) ==
    LET u  == E.task[t].link
        E0 == [E EXCEPT !.sem = @ - 1,
                        !.started = @ \cup {u},
                        !.task[t].stats0 = E.stats,
                        !.task[t].first = (u \notin E.started),
                        !.task[t].priorDone = (u \in DOMAIN E.lastRet),
                        !.task[t].priorRes =
                            IF u \in DOMAIN E.lastRet THEN E.lastRet[u] ELSE NoResult,
                        !.task[t].cachedAtStart = (u \in DOMAIN cache),
                        !.task[t].cachedRes =
                            IF u \in DOMAIN cache THEN cache[u] ELSE NoResult]
        E1 ==
          IF is_broken_domain(conf, u) THEN
            LET r == LinkCheckResult(TRUE, "Known broken domain", FALSE)
            IN NoteReturn(
                 [E0 EXCEPT !.stats = Bump(Bump(@, "links_auto_broken"), "broken_links"),
                            !.task[t].path = "auto",
                            !.task[t].result = r,
                            !.task[t].pc = "polite"], t, r)
          ELSE IF should_skip_domain(conf, u) THEN
            LET r == LinkCheckResult(FALSE, "Skipped (bot-blocking domain)", FALSE)
            IN NoteReturn(
                 [E0 EXCEPT !.stats = Bump(@, "links_skipped"),
                            !.task[t].path = "skip",
                            !.task[t].result = r,
                            !.task[t].pc = "polite"], t, r)
          ELSE IF InCache(cache, u) THEN
            LET r == CachedResult(cache[u])
            IN NoteReturn(
                 [E0 EXCEPT !.stats = Bump(@, "cache_hits"),
                            !.task[t].path = "hit",
                            !.task[t].result = r,
                            !.task[t].pc = "polite"], t, r)
          ELSE
            [E0 EXCEPT !.stats = Bump(@, "total_links_checked"),
                       !.task[t].path = "probe",
                       !.task[t].delay = conf.retry_delay,
                       !.task[t].last_error = "Unknown",
                       !.task[t].attempt = 0,
                       !.task[t].pc = "probe"]
    IN [E1 EXCEPT !.task[t].stats1 = E1.stats]

\* a semaphore that also hands out the slots whose holders are in their
\* politeness sleep
SlotFree_unpolite(sm, tk) ==
    sm + Cardinality({t \in DOMAIN tk : tk[t].pc = "polite"}) > 0

\* "async with semaphore" enters without waiting when a slot is free
SlotFree(sm, tk) == sm > 0

\* gather() starts the tasks in the order of links; each runs to its first
\* suspension before the next one starts, so the first tasks take the free
\* slots of the semaphore one after the other and the rest queue up.
RECURSIVE EnterFirst(_, _, _, _, _)
EnterFirst(E, conf, cache, t, n) ==
    IF t > n \/ ~SlotFree(E.sem, E.task) THEN E
    ELSE EnterFirst(Enter(E, conf, cache, t), conf, cache, t + 1, n)

\* check_links_batch(links, ...) up to the first suspension of gather()
BeginBatch(links, how) ==
    LET tk == [i \in 1..Len(links) |-> NewTask(links[i])]
        E  == EnterFirst(
                Engine(stats, tk, SemaphoreInit(cfg.concurrency), started, firstRet, lastRet),
                cfg, link_cache, 1, Len(links))
    IN  /\ task' = E.task
        /\ sem' = E.sem
        /\ stats' = E.stats
        /\ started' = E.started
        /\ firstRet' = E.firstRet
        /\ lastRet' = E.lastRet
        /\ phase' = "batch"
        /\ via' = how
        /\ dispatched' = dispatched + Len(links)
        /\ UNCHANGED << scope, cfg, link_cache, results, post_idx, broken_records, faulted >>

\* run_async processes the next post: check_post_links_async with the links
\* that extract_links_from_post found (none when the fetch failed).
CheckPostLinks(raw) ==
    /\ phase = "idle"
    /\ run.pc # "raised"
    /\ post_idx < scope.posts
    /\ LET links == Unique(raw)
       IN IF links = << >>
          THEN /\ post_idx' = post_idx + 1
               /\ UNCHANGED << run, scope, cfg, link_cache, stats, results, phase, via, task, sem,
                               broken_records, started, firstRet, lastRet, faulted,
                               dispatched >>
          ELSE /\ dispatched + Len(links) <= scope.checks
               /\ BeginBatch(links, "post")
               /\ UNCHANGED run

\* check_links_batch called with a link list of the caller's own, one that
\* extract_links_from_post cannot produce: it names some link twice
CheckLinksBatch(links) ==
    /\ phase = "idle"
    /\ run.pc # "raised"
    /\ post_idx < scope.posts
    /\ links # Unique(links)
    /\ dispatched + Len(links) <= scope.checks
    /\ BeginBatch(links, "direct")
    /\ UNCHANGED run


Tasks == DOMAIN task

\* a task has acquired the semaphore and not released it
InFlight(t) == task[t].pc \in {"probe", "backoff", "polite"}

\* the task ended: it returned (link, result), or raised
Settled(t) == task[t].pc \in {"done", "fault"}

\* A queued task is woken by a release and takes the slot: the semaphore
\* wakes its waiters in the order they queued, which is the order of links.
Acquire(t) ==
    /\ phase = "batch"
    /\ task[t].pc = "wait"
    /\ SlotFree(sem, task)
    /\ \A i \in Tasks : i < t => task[i].pc # "wait"
    /\ LET E == Enter(Engine(stats, task, sem, started, firstRet, lastRet),
                      cfg, link_cache, t)
       IN /\ task' = E.task
          /\ sem' = E.sem
          /\ stats' = E.stats
          /\ started' = E.started
          /\ firstRet' = E.firstRet
          /\ lastRet' = E.lastRet
    /\ UNCHANGED << run, scope, cfg, link_cache, results, phase, via, post_idx, broken_records, faulted,
                    dispatched >>


\* a loop that retries whatever the outcome says
ShouldStop_ignores_retryable(conf, o, attempt) == attempt = conf.max_retries

\* a loop that notices one attempt too late that it has used them up
ShouldStop_late(conf, o, attempt) == ~o.should_retry \/ attempt = conf.max_retries + 1

\* "if not should_retry or attempt == self.max_retries: break"
ShouldStop(conf, o, attempt) == ~o.should_retry \/ attempt = conf.max_retries

\* the broken outcome o of a probe, as the history of task t keeps it
Seen(o) == [e |-> o.error_type, r |-> o.should_retry]

\* one call of _check_link_once, as the history of task t keeps it
Attempt(resp, o) == [resp |-> resp, out |-> o]

\* the history of attempts, kept in the runs that classify single probes
Noted(tried, resp, o) == IF scope.attempts THEN Append(tried, Attempt(resp, o)) ELSE tried

\* after the loop: result = LinkCheckResult(True, last_error); the cache
\* entry and the broken counter; the call returns
GiveUp(tk, t) ==
    LET r == LinkCheckResult(TRUE, tk[t].last_error, FALSE)
        E == NoteReturn(Engine(stats, [tk EXCEPT ![t].result = r, ![t].pc = "polite"],
                               sem, started, firstRet, lastRet), t, r)
    IN /\ link_cache' = CacheStore(link_cache, tk[t].link, r)
       /\ stats' = Bump(stats, "broken_links")
       /\ task' = E.task
       /\ firstRet' = E.firstRet
       /\ lastRet' = E.lastRet

\* _check_link_once returns for task t with the classification of resp, and
\* the loop body of check_link_with_retry runs to the next suspension
\* (the backoff sleep) or to the return.
ProbeReturn(t, resp) ==
    /\ phase = "batch"
    /\ task[t].pc = "probe"
    /\ LET o  == _check_link_once(resp)
           u  == task[t].link
           tk == [task EXCEPT ![t].probes = @ + 1,
                              ![t].tried = Noted(@, resp, o)]
       IN IF ~o.is_broken THEN
             LET r == LinkCheckResult(FALSE, "OK", FALSE)
                 E == NoteReturn(Engine(stats, [tk EXCEPT ![t].result = r, ![t].pc = "polite"],
                                        sem, started, firstRet, lastRet), t, r)
             IN /\ link_cache' = CacheStore(link_cache, u, r)
                /\ task' = E.task
                /\ firstRet' = E.firstRet
                /\ lastRet' = E.lastRet
                /\ UNCHANGED stats
          ELSE LET tb == [tk EXCEPT ![t].last_error = UpdateLastError(@, o.error_type),
                                    ![t].outs = Append(@, Seen(o))]
               IN IF ShouldStop(cfg, o, task[t].attempt)
                  THEN GiveUp(tb, t)
                  ELSE /\ stats' = Bump(stats, "retries")
                       /\ task' = [tb EXCEPT ![t].sleeps = Append(@, task[t].delay),
                                             ![t].pc = "backoff"]
                       /\ UNCHANGED << link_cache, firstRet, lastRet >>
    /\ UNCHANGED << run, scope, cfg, results, phase, via, post_idx, sem, broken_records, started,
                    faulted, dispatched >>

\* an "async with" that keeps the slot when its body raises
ReleaseOnException_leak(sm) == sm

\* "async with semaphore" releases the slot when its body raises
ReleaseOnException(sm) == sm + 1

\* The same step when the retry message cannot be written (print raises in
\* _log): the exception leaves check_link_with_retry and check_with_semaphore,
\* whose "async with" releases the slot, and becomes the task's outcome.
ProbeReturnFault(t, resp) ==
    /\ phase = "batch"
    /\ task[t].pc = "probe"
    /\ LET o == _check_link_once(resp)
       IN /\ o.is_broken
          /\ ~ShouldStop(cfg, o, task[t].attempt)
          /\ stats' = Bump(stats, "retries")
          /\ task' = [task EXCEPT ![t].probes = @ + 1,
                                  ![t].tried = Noted(@, resp, o),
                                  ![t].last_error = UpdateLastError(@, o.error_type),
                                  ![t].outs = Append(@, Seen(o)),
                                  ![t].pc = "fault"]
    /\ sem' = ReleaseOnException(sem)
    /\ faulted' = TRUE
    /\ UNCHANGED << run, scope, cfg, link_cache, results, phase, via, post_idx, broken_records,
                    started, firstRet, lastRet, dispatched >>

\* asyncio.sleep(delay) is over: delay *= 2, and the loop goes to its next
\* attempt, or ends when the range is used up
BackoffWake(t) ==
    /\ phase = "batch"
    /\ task[t].pc = "backoff"
    /\ LET tk == [task EXCEPT ![t].delay = NextDelay(@)]
       IN IF LoopContinues(cfg, task[t].attempt)
          THEN /\ task' = [tk EXCEPT ![t].attempt = @ + 1, ![t].pc = "probe"]
               /\ UNCHANGED << link_cache, stats, firstRet, lastRet >>
          ELSE GiveUp(tk, t)
    /\ UNCHANGED << run, scope, cfg, results, phase, via, post_idx, sem,
                    broken_records, started, faulted, dispatched >>

\* asyncio.sleep(0.1) is over: the task returns (link, result) and leaves
\* "async with semaphore", which releases the slot
PoliteWake(t) ==
    /\ phase = "batch"
    /\ task[t].pc = "polite"
    /\ task' = [task EXCEPT ![t].pc = "done"]
    /\ sem' = sem + 1
    /\ UNCHANGED << run, scope, cfg, link_cache, stats, results, phase, via, post_idx,
                    broken_records, started, firstRet, lastRet, faulted, dispatched >>


\* gather(*tasks, return_exceptions=True) returns when every task has ended
GatherReady(tk) == \A t \in DOMAIN tk : tk[t].pc \in {"done", "fault"}

\* a test that takes every returned result for a broken one
IsBrokenItem_any(item) == item.pc = "done"

\* "if isinstance(item, Exception): continue ... if result.is_broken"
IsBrokenItem(item) == item.pc = "done" /\ item.result.is_broken

\* a list that takes each new record at its front
AppendRecord_front(recs, rec) == << rec >> \o recs

\* broken_records.append(BrokenLinkRecord(...))
AppendRecord(recs, rec) == Append(recs, rec)

\* the loop over the gathered items: exceptions are skipped, a broken
\* result becomes a record, in the order of links
RECURSIVE Records(_, _, _)
Records(tk, post, n) ==
    IF n = 0 THEN << >>
    ELSE LET rest == Records(tk, post, n - 1)
         IN IF IsBrokenItem(tk[n])
            THEN AppendRecord(rest,
                              BrokenLinkRecord(post, tk[n].link, tk[n].result.error_type, n))
            ELSE rest

\* check_links_batch returns its records for the post;
\* check_post_links_async extends self.results with them
Gather(post) ==
    /\ phase = "batch"
    /\ GatherReady(task)
    /\ LET recs == Records(task, post, Len(task))
       IN /\ broken_records' = recs
          /\ results' = IF via = "post" THEN results \o recs ELSE results
    /\ phase' = "idle"
    /\ UNCHANGED << scope, cfg, link_cache, stats, via, task, sem, started, firstRet, lastRet,
                    faulted, dispatched >>

\* a message cannot be written (print raises) and the exception ends the
\* run
Raised(r) == [r EXCEPT !.pc = "raised"]

\* the result loop writes a message for the item: "Unexpected error" for an
\* exception, "BROKEN" for a broken result
LogsItem(item) == item.pc = "fault" \/ IsBrokenItem(item)

\* gather() returns and a message of the result loop cannot be written
\* (print raises in _log): the exception leaves check_links_batch, no
\* records are returned, self.results is not extended, and the exception
\* goes on through check_post_links_async and run_async, which end.
GatherFault ==
    /\ phase = "batch"
    /\ GatherReady(task)
    /\ \E t \in Tasks : LogsItem(task[t])
    /\ broken_records' = << >>
    /\ phase' = "idle"
    /\ faulted' = TRUE
    /\ run' = Raised(run)
    /\ UNCHANGED << scope, cfg, link_cache, stats, results, via, post_idx, task, sem, started,
                    firstRet, lastRet, dispatched >>

\* check_post_links_async cannot write a message before its batch starts
\* ("Extracting links", "Found N unique links", "No links found",
\* "Checking N links"): the exception leaves it, nothing was checked
CheckPostLinksFault ==
    /\ phase = "idle"
    /\ run.pc = "off"
    /\ post_idx < scope.posts
    /\ run' = Raised(run)
    /\ UNCHANGED << scope, cfg, link_cache, stats, results, phase, via, post_idx, task, sem,
                    broken_records, started, firstRet, lastRet, faulted, dispatched >>

\* the batch of the post returns, check_post_links_async extends
\* self.results and cannot write "Found N broken links in this post": the
\* exception leaves it, the records are in self.results
CollectFault ==
    /\ via = "post"
    /\ run.pc = "off"
    /\ Gather(post_idx + 1)
    /\ run' = Raised(run)
    /\ UNCHANGED post_idx

\* the batch of the post (named by its position) returns and the caller
\* goes on to the next one
Collect ==
    /\ Gather(post_idx + 1)
    /\ post_idx' = post_idx + 1
    /\ UNCHANGED run

Next ==
    \/ \E raw \in LinkLists(scope.urls, scope.links) : CheckPostLinks(raw)
    \/ CheckPostLinksFault
    \/ \E links \in LinkLists(scope.urls, scope.links) : CheckLinksBatch(links)
    \/ \E t \in Tasks : Acquire(t)
    \/ \E t \in Tasks, resp \in scope.responses : ProbeReturn(t, resp)
    \/ \E t \in Tasks, resp \in scope.responses : ProbeReturnFault(t, resp)
    \/ \E t \in Tasks : BackoffWake(t)
    \/ \E t \in Tasks : PoliteWake(t)
    \/ Collect
    \/ GatherFault
    \/ CollectFault

Spec == Init /\ [][Next]_vars

\* One batch of every size and concurrency in the bounds, over a url that
\* is probed and one that the policy answers.
InitLive ==
    /\ scope = [ urls |-> {1, 3}, responses |-> Responses,
                 links |-> MaxLinks, checks |-> MaxLinks, posts |-> 1,
                 attempts |-> FALSE ]
    /\ cfg \in { Config(c, m, d, p) : c \in 1..MaxConcurrency, m \in BatchRetries,
                                      d \in RetryDelays, p \in Policies }
    /\ Constructed
    /\ run = NotRunning

\* the steps the event loop takes once a batch has started: a freed slot
\* wakes the first waiter, a sleep ends, a probe attempt returns, gather()
\* returns
Progress ==
    \/ \E t \in Tasks : Acquire(t)
    \/ \E t \in Tasks, resp \in scope.responses : ProbeReturn(t, resp)
    \/ \E t \in Tasks, resp \in scope.responses : ProbeReturnFault(t, resp)
    \/ \E t \in Tasks : BackoffWake(t)
    \/ \E t \in Tasks : PoliteWake(t)
    \/ Collect
    \/ GatherFault
    \/ CollectFault

\* The event loop runs every callback that is ready, every sleep ends and
\* every probe attempt returns: a batch that can take a step takes one.
SpecLive == InitLive /\ [][Next]_vars /\ WF_vars(Progress)

\* single calls never queue for the semaphore and never share a batch
NextCall ==
    \/ \E raw \in LinkLists(scope.urls, scope.links) : CheckPostLinks(raw)
    \/ CheckPostLinksFault
    \/ \E t \in Tasks, resp \in scope.responses : ProbeReturn(t, resp)
    \/ \E t \in Tasks, resp \in scope.responses : ProbeReturnFault(t, resp)
    \/ \E t \in Tasks : BackoffWake(t)
    \/ \E t \in Tasks : PoliteWake(t)
    \/ Collect
    \/ GatherFault
    \/ CollectFault

SpecCall == InitCall /\ [][NextCall]_vars

SpecProbe == InitProbe /\ [][NextCall]_vars


\* -------------------------------------------------------------- run_async
\* the post urls of the sampled runs, and the history files
PostUrls == {1, 2}

HistoryFiles ==
    { HistoryFile("missing", {}), HistoryFile("corrupt", {}),
      HistoryFile("not_object", {}),
      HistoryFile("map", {1}), HistoryFile("map", {1, 2}) }

\* the lists load_urls_from_file can return: any urls, repetitions too
PostLists(n) == UNION { [1..k -> PostUrls] : k \in 0..n }

\* a run of run_async over at most MaxPosts posts whose pages link to a url
\* that is probed and to one of a broken domain
InitRun ==
    /\ scope = [ urls |-> {1, 5}, responses |-> Responses,
                 links |-> 2, checks |-> 2 * MaxPosts, posts |-> MaxPosts,
                 attempts |-> FALSE ]
    /\ cfg \in { Config(c, 1, 1, Policy({D_b_io}, {})) : c \in {1, 2} }
    /\ Constructed
    /\ run \in { RunState(o, h, f, l) :
                  o \in BOOLEAN, h \in BOOLEAN, f \in HistoryFiles, l \in PostLists(MaxPosts) }
              \cup { RunStateNoSource(o, h, f) :
                       o \in BOOLEAN, h \in BOOLEAN, f \in HistoryFiles }
    /\ run.history_file \/ run.file.kind = "missing"

\* "if history_file: self.load_history(history_file)"; an exception of
\* load_history leaves run_async and ends the run
LoadHistory ==
    /\ run.pc = "start"
    /\ LET loaded == IF run.history_file THEN load_history(run.checked_posts, run.file)
                     ELSE run.checked_posts
           calls  == IF run.history_file THEN 1 ELSE 0
       IN run' = IF run.history_file /\ load_history_raises(run.file)
                 THEN [run EXCEPT !.pc = "aborted", !.loads = @ + calls]
                 ELSE [run EXCEPT !.pc = "loaded", !.checked_posts = loaded,
                                  !.history0 = loaded, !.loads = @ + calls]
    /\ UNCHANGED << scope, cfg, link_cache, stats, results, phase, via, post_idx, task, sem,
                    broken_records, started, firstRet, lastRet, faulted, dispatched >>

\* a save_history that writes the map as load_history left it
save_history_loaded(r, written) ==
    IF r.history_file /\ written THEN [written |-> TRUE, posts |-> r.history0]
    ELSE r.saved

\* run_async cannot write one of its first messages: the exception ends
\* the run before load_history
StartFault ==
    /\ run.pc = "start"
    /\ run' = Raised(run)
    /\ UNCHANGED << scope, cfg, link_cache, stats, results, phase, via, post_idx, task, sem,
                    broken_records, started, firstRet, lastRet, faulted, dispatched >>

\* load_history has set self.checked_posts and a message of it ("No
\* history file found", "Loaded history", the warning) or of run_async
\* after it ("History file", "Mode") cannot be written: the exception ends
\* the run
LoadHistoryFault ==
    /\ run.pc = "start"
    /\ run.history_file
    /\ ~load_history_raises(run.file)
    /\ LET loaded == load_history(run.checked_posts, run.file)
       IN run' = [Raised(run) EXCEPT !.checked_posts = loaded, !.history0 = loaded,
                                     !.loads = @ + 1]
    /\ UNCHANGED << scope, cfg, link_cache, stats, results, phase, via, post_idx, task, sem,
                    broken_records, started, firstRet, lastRet, faulted, dispatched >>

\* load_history has read a map and cannot write "Loaded history": print
\* raises an OSError inside the try, "except (json.JSONDecodeError,
\* IOError)" takes it for a failure of the file, the warning is written and
\* self.checked_posts = {}
LoadHistoryReset ==
    /\ run.pc = "start"
    /\ run.history_file
    /\ run.file.kind = "map"
    /\ run' = [run EXCEPT !.pc = "loaded", !.checked_posts = << >>, !.history0 = << >>,
                          !.loads = @ + 1]
    /\ UNCHANGED << scope, cfg, link_cache, stats, results, phase, via, post_idx, task, sem,
                    broken_records, started, firstRet, lastRet, faulted, dispatched >>

\* save_history: what the history file holds after it.  Without a history
\* file it returns at once; an IOError of the write is reported and leaves
\* the file as it was.
save_history(r, written) ==
    IF r.history_file /\ written THEN [written |-> TRUE, posts |-> r.checked_posts]
    ELSE r.saved

\* "if history_file: self.save_history()"
SaveIfTracking(r, written) ==
    [r EXCEPT !.saved = save_history(r, written),
              !.saves = IF r.history_file THEN @ + 1 ELSE @]

\* Without url_file and year run_async prints an error and returns, the
\* history not saved.  Otherwise "if only_new and history_file: post_urls =
\* self.filter_unchecked_posts(...)" and the early exit "if not post_urls",
\* which saves the history.
SelectPosts(written) ==
    /\ run.pc = "loaded"
    /\ LET filtering == run.only_new /\ run.history_file
           f == filter_unchecked_posts(run.supplied, run.checked_posts)
           posts == IF filtering THEN f.unchecked ELSE run.supplied
       IN /\ stats' = IF run.has_source /\ filtering
                     THEN [stats EXCEPT !.posts_skipped = f.skipped] ELSE stats
          /\ run' = IF ~run.has_source THEN [run EXCEPT !.pc = "finished"]
                    ELSE IF posts = << >>
                    THEN [SaveIfTracking(run, written) EXCEPT !.pc = "finished",
                                                              !.post_urls = posts]
                    ELSE [run EXCEPT !.pc = "loop", !.post_urls = posts]
    /\ UNCHANGED << scope, cfg, link_cache, results, phase, via, post_idx, task, sem,
                    broken_records, started, firstRet, lastRet, faulted, dispatched >>

\* run_async cannot write a message between load_history and the loop.
\* Before the filter ("Input", "Loading URLs", "Post limit", the error for
\* want of a source) nothing has changed; after it ("Skipping N previously
\* checked posts", "Posts to check", the rule, "No posts to check!")
\* stats['posts_skipped'] is set.
SelectPostsFault(filtered) ==
    /\ run.pc = "loaded"
    /\ LET filtering == run.has_source /\ run.only_new /\ run.history_file
           f == filter_unchecked_posts(run.supplied, run.checked_posts)
       IN /\ filtered => filtering
          /\ stats' = IF filtered THEN [stats EXCEPT !.posts_skipped = f.skipped] ELSE stats
    /\ run' = Raised(run)
    /\ UNCHANGED << scope, cfg, link_cache, results, phase, via, post_idx, task, sem,
                    broken_records, started, firstRet, lastRet, faulted, dispatched >>

\* the early exit has called save_history, which cannot write its message
\* ("Saved history" after the write, the warning after a failed write):
\* the exception ends the run, the file written or not
SelectPostsSaveFault(written) ==
    /\ run.pc = "loaded"
    /\ run.has_source /\ run.history_file
    /\ LET filtering == run.only_new
           f == filter_unchecked_posts(run.supplied, run.checked_posts)
           posts == IF filtering THEN f.unchecked ELSE run.supplied
       IN /\ posts = << >>
          /\ stats' = IF filtering THEN [stats EXCEPT !.posts_skipped = f.skipped] ELSE stats
    /\ run' = Raised(SaveIfTracking(run, written))
    /\ UNCHANGED << scope, cfg, link_cache, results, phase, via, post_idx, task, sem,
                    broken_records, started, firstRet, lastRet, faulted, dispatched >>

\* what the loop notes when it takes up a post
LogEntry(r, post, fetched, links, from) ==
    [ post |-> post, known |-> post \in DOMAIN r.checked_posts, fetched |-> fetched,
      links |-> links, batch |-> links # << >>, from |-> from ]

\* "if history_file: self.mark_post_checked(post_url)" after a post
MarkAfterPost(r, post, now) ==
    IF r.history_file THEN mark_post_checked(r.checked_posts, post, now) ELSE r.checked_posts

\* The loop takes up the next post.  extract_links_from_post fails
\* (fetched = FALSE, no links) or returns the links of the page without
\* repetitions.  Without links check_post_links_async returns at once and
\* the post is marked; with links the batch starts.
ProcessPost(fetched, raw) ==
    /\ run.pc = "loop"
    /\ phase = "idle"
    /\ post_idx < Len(run.post_urls)
    /\ LET post  == run.post_urls[post_idx + 1]
           links == IF fetched THEN Unique(raw) ELSE << >>
           noted == [run EXCEPT !.log = Append(@, LogEntry(run, post, fetched, links, Len(results)))]
       IN IF links = << >>
          THEN /\ run' = [noted EXCEPT !.checked_posts = MarkAfterPost(run, post, post_idx + 1)]
               /\ post_idx' = post_idx + 1
               /\ UNCHANGED << scope, cfg, link_cache, stats, results, phase, via, task, sem,
                               broken_records, started, firstRet, lastRet, faulted,
                               dispatched >>
          ELSE /\ BeginBatch(links, "post")
               /\ run' = [noted EXCEPT !.pc = "checking"]

\* the loop cannot write "[i/n] Processing", or check_post_links_async
\* cannot write a message before its batch starts: the exception ends the
\* run, the post not checked and not marked
ProcessPostFault ==
    /\ run.pc = "loop"
    /\ phase = "idle"
    /\ post_idx < Len(run.post_urls)
    /\ run' = Raised(run)
    /\ UNCHANGED << scope, cfg, link_cache, stats, results, phase, via, post_idx, task, sem,
                    broken_records, started, firstRet, lastRet, faulted, dispatched >>

\* history: the checks of a batch that a broken cache entry answered
BrokenHits(tk) ==
    Cardinality({t \in DOMAIN tk : tk[t].path = "hit" /\ tk[t].result.is_broken})

\* the batch of the post returns, its records are added to self.results
\* and the post is marked
FinishPost ==
    /\ run.pc = "checking"
    /\ LET post == run.post_urls[post_idx + 1]
       IN /\ Gather(post)
          /\ run' = [run EXCEPT !.pc = "loop",
                                !.checked_posts = MarkAfterPost(run, post, post_idx + 1),
                                !.broken_hits = @ + BrokenHits(task)]
    /\ post_idx' = post_idx + 1

\* the batch of the post returns, its records are added to self.results
\* and "Found N broken links in this post" cannot be written: the
\* exception ends the run, the post not marked
FinishPostFault ==
    /\ run.pc = "checking"
    /\ Gather(run.post_urls[post_idx + 1])
    /\ run' = [Raised(run) EXCEPT !.broken_hits = @ + BrokenHits(task)]
    /\ UNCHANGED post_idx

\* after the last post a message cannot be written: "Completed in" before
\* save_history, or a message of save_history or of generate_report after
\* it was called
FinishRunFault(called, written) ==
    /\ run.pc = "loop"
    /\ post_idx = Len(run.post_urls)
    /\ run' = IF called THEN Raised(SaveIfTracking(run, written)) ELSE Raised(run)
    /\ UNCHANGED << scope, cfg, link_cache, stats, results, phase, via, post_idx, task, sem,
                    broken_records, started, firstRet, lastRet, faulted, dispatched >>

\* after the last post: "if history_file: self.save_history()"
FinishRun(written) ==
    /\ run.pc = "loop"
    /\ post_idx = Len(run.post_urls)
    /\ run' = [SaveIfTracking(run, written) EXCEPT !.pc = "finished"]
    /\ UNCHANGED << scope, cfg, link_cache, stats, results, phase, via, post_idx, task, sem,
                    broken_records, started, firstRet, lastRet, faulted, dispatched >>

NextRun ==
    \/ LoadHistory
    \/ StartFault
    \/ LoadHistoryFault
    \/ LoadHistoryReset
    \/ \E written \in BOOLEAN : SelectPosts(written)
    \/ \E filtered \in BOOLEAN : SelectPostsFault(filtered)
    \/ \E written \in BOOLEAN : SelectPostsSaveFault(written)
    \/ ProcessPostFault
    \/ \E fetched \in BOOLEAN, raw \in LinkLists(scope.urls, scope.links) :
          ProcessPost(fetched, raw)
    \/ \E t \in Tasks : Acquire(t)
    \/ \E t \in Tasks, resp \in scope.responses : ProbeReturn(t, resp)
    \/ \E t \in Tasks, resp \in scope.responses : ProbeReturnFault(t, resp)
    \/ \E t \in Tasks : BackoffWake(t)
    \/ \E t \in Tasks : PoliteWake(t)
    \/ FinishPost
    \/ GatherFault
    \/ FinishPostFault
    \/ \E written \in BOOLEAN : FinishRun(written)
    \/ \E called \in BOOLEAN, written \in BOOLEAN : FinishRunFault(called, written)

SpecRun == InitRun /\ [][NextRun]_vars


\* ---------------------------------------------------------------- claims
\* the call of task t has started (its first step has run)
Started(t) == task[t].path # "none"

\* check_link_with_retry has returned a result for task t
Returned(t) == task[t].pc \in {"polite", "done"}

SameClass(r1, r2) == r1.is_broken = r2.is_broken /\ r1.error_type = r2.error_type

\* the host of url u, lowercased, as the words "the URL's host" mean it
Host(u) == Lower(UrlTable[u].host)

HostMatches(u, entries) == \E d \in entries : DomainMatches(Host(u), d)

\* no policy entry matches what the code compares, the network location
NoPolicy(u) == ~is_broken_domain(cfg, u) /\ ~should_skip_domain(cfg, u)

\* C1, as stated: every check of a url that is not the first check of that
\* url in the run is a cache hit (cache_hits incremented, no probe) and
\* returns the is_broken and error_type that the first check returned.
C1_Original ==
    \A t \in Tasks :
        (Started(t) /\ ~task[t].first) =>
            /\ task[t].path = "hit"
            /\ task[t].stats1.cache_hits = task[t].stats0.cache_hits + 1
            /\ task[t].probes = 0
            /\ task[t].link \in DOMAIN firstRet =>
                   SameClass(task[t].result, firstRet[task[t].link])

\* C1, amended: for a url that no policy entry matches, a check that starts
\* after an earlier check of the url has returned a result is a cache hit
\* (cache_hits incremented, no probe) and returns the is_broken and
\* error_type of the check of the url that returned last before it started.
C1_SecondCheckIsHit ==
    \A t \in Tasks :
        (Started(t) /\ NoPolicy(task[t].link) /\ task[t].priorDone) =>
            /\ task[t].path = "hit"
            /\ task[t].stats1.cache_hits = task[t].stats0.cache_hits + 1
            /\ task[t].probes = 0
            /\ task[t].result.from_cache
            /\ SameClass(task[t].result, task[t].priorRes)

\* a second check of a url found broken by probing has been answered
C1_Witness ==
    \E t \in Tasks :
        /\ task[t].priorDone /\ NoPolicy(task[t].link)
        /\ task[t].pc = "done"
        /\ task[t].result.is_broken
        /\ task[t].result.error_type = "HTTP 500"

\* C2: a check_link_with_retry call that starts when its url is a key of
\* link_cache never calls _check_link_once: it makes no probe and never
\* waits for one or for a backoff.
C2_NoReprobe ==
    \A t \in Tasks :
        task[t].cachedAtStart =>
            /\ task[t].probes = 0
            /\ task[t].pc \notin {"probe", "backoff", "fault"}
            /\ task[t].stats1.total_links_checked = task[t].stats0.total_links_checked

\* a call that started with its url cached has ended, in a batch whose
\* other call probed
C2_Witness ==
    \E t \in Tasks, o \in Tasks :
        /\ task[t].cachedAtStart /\ task[t].pc = "done"
        /\ task[o].path = "probe" /\ task[o].probes > 0


\* C3, as stated: a check of a url whose host matches an entry of
\* broken_domains returns broken with reason "Known broken domain" after no
\* probe attempt, and adds one to links_auto_broken and one to broken_links.
C3_Claim ==
    \A t \in Tasks :
        (Started(t) /\ HostMatches(task[t].link, cfg.broken_domains)) =>
            /\ task[t].path = "auto"
            /\ task[t].probes = 0
            /\ task[t].result = LinkCheckResult(TRUE, "Known broken domain", FALSE)
            /\ task[t].stats1.links_auto_broken = task[t].stats0.links_auto_broken + 1
            /\ task[t].stats1.broken_links = task[t].stats0.broken_links + 1

\* C4, as stated: a check of a url whose host matches an entry of
\* skip_domains and none of broken_domains returns not broken after no probe
\* attempt, adds one to links_skipped and leaves broken_links unchanged.
C4_Claim ==
    \A t \in Tasks :
        ( /\ Started(t)
          /\ HostMatches(task[t].link, cfg.skip_domains)
          /\ ~HostMatches(task[t].link, cfg.broken_domains) ) =>
            /\ task[t].path = "skip"
            /\ task[t].probes = 0
            /\ ~task[t].result.is_broken
            /\ task[t].stats1.links_skipped = task[t].stats0.links_skipped + 1
            /\ task[t].stats1.broken_links = task[t].stats0.broken_links


\* the call of task t went to the probe loop and has returned
Probed(t) == task[t].path = "probe" /\ Returned(t)

\* C5: a probed call that returns OK after k broken outcomes (k <=
\* max_retries, all of them retryable) has made exactly k+1 probe attempts,
\* has slept exactly k times, for retry_delay, 2*retry_delay, 4*retry_delay,
\* ..., and has added k to the retries counter.
C5_RetryThenSuccess ==
    \A t \in Tasks :
        (Probed(t) /\ ~task[t].result.is_broken) =>
            LET k == Len(task[t].outs)
            IN /\ k <= cfg.max_retries
               /\ \A i \in 1..k : task[t].outs[i].r
               /\ task[t].probes = k + 1
               /\ Len(task[t].sleeps) = k
               /\ \A i \in 1..k : task[t].sleeps[i] = cfg.retry_delay * 2^(i - 1)
               /\ stats.retries = task[t].stats0.retries + k
               /\ task[t].result = LinkCheckResult(FALSE, "OK", FALSE)

\* two retryable outcomes, then a success, with a base delay other than 1
C5_Witness ==
    \E t \in Tasks :
        /\ Probed(t) /\ task[t].pc = "done" /\ ~task[t].result.is_broken
        /\ Len(task[t].outs) = 2
        /\ cfg.retry_delay = 3
        /\ task[t].sleeps = <<3, 6>>

\* C6: a non-retryable broken outcome is the last outcome of its call: no
\* attempt and no backoff sleep follows it, whatever max_retries is, and
\* the call returns broken with the reason of that outcome.
C6_NonRetryableStops ==
    \A t \in Tasks :
        \A i \in 1..Len(task[t].outs) :
            ~task[t].outs[i].r =>
                /\ i = Len(task[t].outs)
                /\ task[t].probes = i
                /\ Len(task[t].sleeps) = i - 1
                /\ Returned(t)
                /\ task[t].result = LinkCheckResult(TRUE, task[t].outs[i].e, FALSE)

\* HTTP 404 on the first attempt of a call that had two retries left
C6_Witness ==
    \E t \in Tasks :
        /\ task[t].pc = "done"
        /\ cfg.max_retries = 2
        /\ task[t].outs = << [e |-> "HTTP 404", r |-> FALSE] >>
        /\ task[t].probes = 1

\* C7: a call makes at most max_retries + 1 probe attempts; no backoff
\* sleep follows the final attempt, also when its outcome is retryable;
\* with max_retries = 0 a probed call makes exactly one attempt and never
\* sleeps.
C7_AttemptBound ==
    \A t \in Tasks :
        /\ task[t].probes <= cfg.max_retries + 1
        /\ Len(task[t].sleeps) <= cfg.max_retries
        /\ task[t].pc = "backoff" => task[t].probes <= cfg.max_retries
        /\ Probed(t) => Len(task[t].sleeps) = task[t].probes - 1
        /\ (Probed(t) /\ cfg.max_retries = 0) =>
               (task[t].probes = 1 /\ task[t].sleeps = << >>)

\* all attempts used up, the last outcome retryable too
C7_Witness ==
    \E t \in Tasks :
        /\ task[t].pc = "done"
        /\ cfg.max_retries = 2
        /\ task[t].probes = 3
        /\ Len(task[t].outs) = 3 /\ task[t].outs[3].r
        /\ Len(task[t].sleeps) = 2

\* C8: when a probed call returns broken, its result and the entry it
\* stored in link_cache carry the reason of the last probe attempt it made
\* and broken_links has grown by exactly one; when it returns OK the entry
\* stored is OK and broken_links has not changed.  (No other call runs
\* between the return and the next batch in a sequence of single calls.)
C8_LastReasonStored ==
    \A t \in Tasks :
        Probed(t) =>
            /\ task[t].link \in DOMAIN link_cache
            /\ link_cache[task[t].link] = task[t].result
            /\ ~task[t].result.from_cache
            /\ IF task[t].result.is_broken
               THEN /\ Len(task[t].outs) = task[t].probes
                    /\ task[t].result.error_type = task[t].outs[Len(task[t].outs)].e
                    /\ stats.broken_links = task[t].stats0.broken_links + 1
               ELSE /\ task[t].result.error_type = "OK"
                    /\ stats.broken_links = task[t].stats0.broken_links

\* a call that saw HTTP 500 first and HTTP 404 last has returned
C8_Witness ==
    \E t \in Tasks :
        /\ Probed(t) /\ task[t].result.is_broken
        /\ Len(task[t].outs) >= 2
        /\ task[t].outs[1].e = "HTTP 500"
        /\ task[t].result.error_type = "HTTP 404"

\* C9: the number of checks in flight (semaphore acquired, not yet
\* released) never exceeds the configured concurrency.
C9_BoundedInFlight ==
    Cardinality({t \in Tasks : InFlight(t)}) <= cfg.concurrency

\* every slot is taken while another link of the batch waits
C9_Witness ==
    /\ phase = "batch"
    /\ Cardinality({t \in Tasks : InFlight(t)}) = cfg.concurrency
    /\ \E t \in Tasks : task[t].pc = "wait"

\* the record that the link at position t of the last batch produced
RecordsOf(t) == {i \in 1..Len(broken_records) : broken_records[i].idx = t}

\* C10: when the batch is over and some link's check raised, that link
\* has no record, every other link of the batch was checked to the end,
\* and every sibling whose check ended broken has its record.
C10_FaultIsolated ==
    (phase = "idle" /\ \E f \in Tasks : task[f].pc = "fault") =>
        \A t \in Tasks :
            IF task[t].pc = "fault" THEN RecordsOf(t) = {}
            ELSE /\ task[t].pc = "done"
                 /\ task[t].result # NoResult
                 /\ IF task[t].result.is_broken
                    THEN \E i \in 1..Len(broken_records) :
                            /\ RecordsOf(t) = {i}
                            /\ broken_records[i].broken_link = task[t].link
                            /\ broken_records[i].error_type = task[t].result.error_type
                    ELSE RecordsOf(t) = {}

\* every call of _check_link_once the tasks of the batch have made
Attempts == UNION { { task[t].tried[i] : i \in 1..Len(task[t].tried) } : t \in Tasks }

\* C14: a probe that gets a response classifies it by its status: 404 is
\* broken and not retryable ("HTTP 404"); a status of 500 or more is broken
\* and retryable; any other status from 400 to 499 is broken and not
\* retryable; a status below 400 is broken only for a soft-404 title, never
\* for the status.
C14_StatusClassified ==
    \A a \in Attempts :
        a.resp.exc = "none" =>
            /\ a.resp.status = 404 => a.out = Outcome(TRUE, "HTTP 404", FALSE)
            /\ a.resp.status >= 500 => (a.out.is_broken /\ a.out.should_retry)
            /\ (a.resp.status >= 400 /\ a.resp.status < 500) =>
                   (a.out.is_broken /\ ~a.out.should_retry)
            /\ a.resp.status < 400 =>
                   \/ a.out = Outcome(FALSE, "OK", FALSE)
                   \/ /\ a.resp.body.kind = "title"
                      /\ a.out = Outcome(TRUE, "Soft 404 (page title indicates error)", FALSE)
            /\ (a.resp.status < 400 /\ a.resp.body.kind # "title") => ~a.out.is_broken

\* one call has met both ends of the 4xx range and both sides of 400: a
\* retried 500, then 499; or 399 answered OK
C14_Witness ==
    \E t \in Tasks :
        /\ task[t].pc = "done"
        /\ Len(task[t].tried) = 2
        /\ task[t].tried[1].resp.status = 500
        /\ task[t].tried[2].resp.status \in {399, 400, 499}

\* the exception kinds that are failures of name resolution
DnsFailures == {"dns_unknown", "dns_nodename", "dns_temporary"}

\* C15, as stated: timeout is broken and retryable; a TLS failure broken
\* and not retryable; a DNS resolution failure broken and not retryable;
\* another connection failure broken and retryable; every other exception
\* broken, not retryable, with reason "Unknown Error".
C15_Original ==
    \A a \in Attempts :
        a.resp.exc # "none" =>
            /\ a.out.is_broken
            /\ a.resp.exc = "timeout" => a.out.should_retry
            /\ a.resp.exc = "ssl" => ~a.out.should_retry
            /\ a.resp.exc \in DnsFailures => ~a.out.should_retry
            /\ a.resp.exc = "refused" => a.out.should_retry
            /\ a.resp.exc \in {"disconnected", "other"} =>
                   a.out = Outcome(TRUE, "Unknown Error", FALSE)

\* C15, amended: timeout is broken and retryable; a TLS failure broken and
\* not retryable; a connection failure whose message has one of the two
\* name-resolution phrases broken and not retryable ("DNS Failure"); every
\* other connection failure, a name-resolution failure with another
\* message among them, broken and retryable; every other aiohttp client
\* error broken and retryable ("Client Error"); only an exception that is
\* none of these is "Unknown Error", not retryable, and the call makes no
\* attempt after it.
C15_ExceptionClassified ==
    \A t \in Tasks : \A i \in 1..Len(task[t].tried) :
        LET a == task[t].tried[i]
        IN a.resp.exc # "none" =>
            /\ a.resp.exc = "timeout" => a.out = Outcome(TRUE, "Timeout", TRUE)
            /\ a.resp.exc = "ssl" => a.out = Outcome(TRUE, "SSL Error", FALSE)
            /\ a.resp.exc \in {"dns_unknown", "dns_nodename"} =>
                   a.out = Outcome(TRUE, "DNS Failure", FALSE)
            /\ a.resp.exc \in {"dns_temporary", "refused"} =>
                   a.out = Outcome(TRUE, "Connection Error", TRUE)
            /\ a.resp.exc = "disconnected" => a.out = Outcome(TRUE, "Client Error", TRUE)
            /\ a.resp.exc = "other" =>
                   /\ a.out = Outcome(TRUE, "Unknown Error", FALSE)
                   /\ i = Len(task[t].tried)
                   /\ task[t].pc \in {"polite", "done"}

\* a call retried after a dropped connection and then stopped at a name
\* that does not resolve
C15_Witness ==
    \E t \in Tasks :
        /\ task[t].pc = "done"
        /\ Len(task[t].tried) = 2
        /\ task[t].tried[1].resp.exc = "disconnected"
        /\ task[t].tried[2].resp.exc = "dns_nodename"
        /\ task[t].result = LinkCheckResult(TRUE, "DNS Failure", FALSE)

\* some phrase occurs in the title when letter case is ignored
HasPhrase(title) ==
    \E phrase \in SOFT_404_PATTERNS :
        \E i \in 1..Len(title) :
            /\ i + Len(phrase) - 1 <= Len(title)
            /\ \A j \in 1..Len(phrase) : LowerChar(title[i + j - 1]) = LowerChar(phrase[j])

\* C16: for a response with a status below 400 the probe answers broken,
\* not retryable, "Soft 404 ..." exactly when the page has a title that
\* holds one of the soft-404 phrases, letter case ignored; with a body that
\* cannot be read or parsed, or without a title, it answers OK.
C16_SoftNotFound ==
    \A a \in Attempts :
        (a.resp.exc = "none" /\ a.resp.status < 400) =>
            IF a.resp.body.kind = "title" /\ HasPhrase(a.resp.body.title)
            THEN a.out = Outcome(TRUE, "Soft 404 (page title indicates error)", FALSE)
            ELSE a.out = Outcome(FALSE, "OK", FALSE)

\* a page titled in capitals was found a soft 404 at status 200
C16_Witness ==
    \E t \in Tasks :
        /\ task[t].pc = "done"
        /\ Len(task[t].tried) = 1
        /\ task[t].tried[1].resp = Response("none", 200, Body("title", T_gone))
        /\ task[t].result.is_broken

\* C17, as stated: a check of a url whose host matches an entry of
\* broken_domains and an entry of skip_domains is auto-broken: it returns
\* broken, adds one to links_auto_broken and to broken_links and leaves
\* links_skipped alone.
C17_Claim ==
    \A t \in Tasks :
        ( /\ Started(t)
          /\ HostMatches(task[t].link, cfg.broken_domains)
          /\ HostMatches(task[t].link, cfg.skip_domains) ) =>
            /\ task[t].path = "auto"
            /\ task[t].result.is_broken
            /\ task[t].stats1.links_auto_broken = task[t].stats0.links_auto_broken + 1
            /\ task[t].stats1.broken_links = task[t].stats0.broken_links + 1
            /\ task[t].stats1.links_skipped = task[t].stats0.links_skipped

\* the classifications _check_link_once returned to the checks of url u
\* in the current batch: the broken ones, and OK for a probed check that
\* returned OK
OutcomesOf(u) ==
    UNION { { task[t].outs[i].e : i \in 1..Len(task[t].outs) }
            \cup (IF Probed(t) /\ ~task[t].result.is_broken THEN {"OK"} ELSE {}) :
            t \in { x \in Tasks : task[x].link = u } }

\* C18, as stated: two checks of the same url in one batch never return
\* one OK and the other broken.
C18_Original ==
    \A t1 \in Tasks, t2 \in Tasks :
        (task[t1].link = task[t2].link /\ Returned(t1) /\ Returned(t2)) =>
            task[t1].result.is_broken = task[t2].result.is_broken

\* C18, amended: when every probe attempt made for a url by the checks of
\* one batch got the same classification, all the checks of that url in the
\* batch return the same is_broken and error_type.
C18_Consistent ==
    \A t1 \in Tasks, t2 \in Tasks :
        ( /\ task[t1].link = task[t2].link
          /\ Returned(t1) /\ Returned(t2)
          /\ Cardinality(OutcomesOf(task[t1].link)) <= 1 ) =>
            SameClass(task[t1].result, task[t2].result)

\* both occurrences of a url missed the cache, both probes were answered
\* alike and both checks ended broken
C18_Witness ==
    \E t1 \in Tasks, t2 \in Tasks :
        /\ t1 # t2 /\ task[t1].link = task[t2].link
        /\ task[t1].pc = "done" /\ task[t2].pc = "done"
        /\ task[t1].path = "probe" /\ task[t2].path = "probe"
        /\ Cardinality(OutcomesOf(task[t1].link)) = 1
        /\ task[t1].result.is_broken

\* the step starts a check that is answered from the cache
HitStep ==
    \E t \in DOMAIN task' :
        /\ task'[t].path = "hit"
        /\ (phase = "idle" \/ task[t].path = "none")

\* what a check answered from the cache has returned and counted
HitFrame ==
    /\ \A t \in Tasks :
          task[t].path = "hit" =>
            /\ task[t].cachedAtStart
            /\ ~task[t].cachedRes.from_cache
            /\ task[t].result =
                 LinkCheckResult(task[t].cachedRes.is_broken, task[t].cachedRes.error_type, TRUE)
            /\ task[t].stats1 = [task[t].stats0 EXCEPT !.cache_hits = @ + 1]
            /\ task[t].probes = 0
    /\ \A u \in DOMAIN link_cache : ~link_cache[u].from_cache

\* C19: a cache hit returns a result with from_cache = true whose
\* is_broken and error_type are those of the entry stored when the check
\* started; of the counters it changes cache_hits only, by one; the step
\* that answers it leaves link_cache as it was, and every stored entry
\* keeps from_cache = false.
C19_HitFrame == [](HitFrame) /\ [][HitStep => link_cache' = link_cache]_vars

\* a check was answered broken from the cache and the entry is still
\* marked as not served from the cache
C19_Witness ==
    \E t \in Tasks :
        /\ task[t].path = "hit" /\ task[t].pc = "done"
        /\ task[t].result.is_broken /\ task[t].result.from_cache
        /\ ~link_cache[task[t].link].from_cache

\* the posts the loop has taken up and finished with
Processed == 1..post_idx

\* C11, as stated: in only-new mode no post is taken up by the loop while
\* its url is a key of the history map, whether the entry was loaded or was
\* made earlier in the same run.
C11_Claim ==
    run.only_new => \A i \in 1..Len(run.log) : ~run.log[i].known

\* filter_unchecked_posts has been applied and no post has been taken up
Filtered ==
    /\ run.pc \in {"loop", "finished"}
    /\ run.only_new /\ run.history_file
    /\ run.log = << >>

\* the positions of the supplied list whose url is not in the history
Surviving == { i \in 1..Len(run.supplied) : run.supplied[i] \notin DOMAIN run.history0 }

\* the k-th of them, counted from the front
KthSurviving(k) == CHOOSE i \in Surviving : Cardinality({ j \in Surviving : j <= i }) = k

\* C12: after filter_unchecked_posts the list of posts holds the supplied
\* urls that are not keys of the history map, each as often as it was
\* supplied and in the supplied order; posts_skipped is the number of
\* entries removed; the history map is as it was loaded.
C12_FilterUnchecked ==
    Filtered =>
        /\ Len(run.post_urls) = Cardinality(Surviving)
        /\ \A k \in 1..Len(run.post_urls) :
              run.post_urls[k] = run.supplied[KthSurviving(k)]
        /\ stats.posts_skipped = Len(run.supplied) - Len(run.post_urls)
        /\ run.checked_posts = run.history0

\* a list of two posts has lost its first, which the history held
C12_Witness ==
    /\ Filtered
    /\ run.supplied = <<1, 2>>
    /\ run.post_urls = <<2>>
    /\ stats.posts_skipped = 1
    /\ DOMAIN run.checked_posts = {1}

\* C13, as stated: a post that the run has marked in the history map was
\* fetched, and every check of its links ran to completion.
C13_Claim ==
    \A i \in Processed :
        run.history_file =>
            /\ run.log[i].fetched
            /\ (i = Len(run.log) /\ run.log[i].batch) =>
                   \A t \in Tasks : task[t].pc = "done"

\* the processing of a post that added the record at position i of results
EventOf(i) ==
    CHOOSE k \in 1..Len(run.log) :
        /\ run.log[k].from < i
        /\ k = Len(run.log) \/ run.log[k + 1].from >= i

SameRecord(r1, r2) == r1.post_url = r2.post_url /\ r1.broken_link = r2.broken_link

\* C20, as stated (its second half): results never holds two records with
\* the same post url and the same broken link.
C20_Original ==
    \A i \in 1..Len(results), j \in 1..Len(results) :
        i < j => ~SameRecord(results[i], results[j])

\* C20, amended: each processing of a post adds to results exactly one
\* record for every link of the post whose check returned broken, with the
\* post's url, the link and the reason, and no other record; two records
\* with the same post url and the same broken link come from two
\* processings of that post.
C20_OneRecordPerLink ==
    /\ (run.pc \in {"loop", "finished"} /\ run.log # << >>) =>
          LET e   == run.log[Len(run.log)]
              new == SubSeq(results, e.from + 1, Len(results))
          IN IF ~e.batch THEN new = << >>
             ELSE /\ \A k \in 1..Len(new) :
                        /\ new[k].idx \in Tasks
                        /\ new[k].post_url = e.post
                        /\ new[k].broken_link = task[new[k].idx].link
                        /\ new[k].error_type = task[new[k].idx].result.error_type
                  /\ \A t \in Tasks :
                        Cardinality({ k \in 1..Len(new) : new[k].idx = t }) =
                            IF task[t].pc = "done" /\ task[t].result.is_broken THEN 1 ELSE 0
    /\ \A i \in 1..Len(results), j \in 1..Len(results) :
          (i < j /\ SameRecord(results[i], results[j])) => EventOf(i) # EventOf(j)

\* a post whose links were answered broken from the cache and by the
\* policy has added its two records, after a post whose link was probed
C20_Witness ==
    /\ run.pc = "loop"
    /\ Len(results) = 3
    /\ results[1].post_url # results[2].post_url
    /\ \E t1 \in Tasks, t2 \in Tasks :
          /\ task[t1].path = "hit" /\ task[t1].result.is_broken
          /\ task[t2].path = "auto"


\* what C21 says of the calls of load_history and save_history, for the
\* runs that are to save when run_async returns
HistoryCalls(saving) ==
    /\ run.loads <= 1 /\ run.saves <= 1
    /\ run.pc \notin {"start", "raised"} => run.loads = 1
    /\ run.log # << >> => run.loads = 1
    /\ run.pc \notin {"finished", "raised"} => run.saves = 0
    /\ run.pc = "finished" => run.saves = (IF saving THEN 1 ELSE 0)
    /\ run.saves = 0 => ~run.saved.written
    /\ run.saves = 1 =>
          /\ \A i \in DOMAIN run.log : run.log[i].post \in DOMAIN run.checked_posts
          /\ run.saved.written => run.saved.posts = run.checked_posts

\* C21, as stated: with a history file, load_history is called once and
\* before the loop takes up a post, and save_history is called once on
\* every run that run_async returns from; every post the loop has
\* processed is a key of the map it saves.
C21_Original == run.history_file => HistoryCalls(TRUE)

\* C21: with a history file, load_history is called once and before the
\* loop takes up a post; save_history is called once when a run that was
\* given a source of posts returns, be it after the last post or on the
\* early exit without posts, and not at all when run_async returns for
\* want of url_file and year; every post the loop has processed is a key
\* of the map it saves, and the file holds that map when the write
\* succeeds.
C21_HistorySaved == run.history_file => HistoryCalls(run.has_source)

\* a run with a history file of one post has processed two other posts and
\* saved the three of them
C21_Witness ==
    /\ run.history_file /\ run.pc = "finished" /\ run.saved.written /\ run.has_source
    /\ DOMAIN run.history0 = {1}
    /\ Len(run.log) = 2
    /\ DOMAIN run.saved.posts = {1, 2}
    /\ run.saved.posts[2] > 0

\* the early exit of a run that has nothing to process saves the history
C21_WitnessEarlyExit ==
    /\ run.history_file /\ run.pc = "finished" /\ run.saved.written
    /\ run.has_source /\ run.supplied # << >> /\ run.log = << >>
    /\ run.saved.posts = run.history0

\* C22: load_history never ends the run: with a missing history file, and
\* with a history file whose content is corrupt or not the expected
\* object, the run goes on with an empty history map.
C22_Claim ==
    (run.history_file /\ run.file.kind \in {"missing", "corrupt", "not_object"}) =>
        /\ run.pc # "aborted"
        /\ run.pc \notin {"start", "off"} => run.history0 = << >>


\* the tasks that hold a slot: their check runs, or it has returned and
\* their politeness sleep is not over
Holders == {t \in Tasks : task[t].pc \in {"probe", "backoff", "polite"}}

\* the steps of a batch, for the task at position t
ReturnsIn(t) == task[t].pc \in {"probe", "backoff"} /\ task'[t].result # NoResult
LeavesIn(t)  == task[t].pc # "done" /\ task'[t].pc = "done"
AcquiresIn(t) == task[t].pc = "wait" /\ task'[t].pc # "wait"

\* C23: the step in which check_link_with_retry returns starts the
\* politeness sleep and keeps the slot; a task that returns its result
\* releases the slot only in the step that ends this sleep; and a waiting
\* link takes a slot only while fewer than concurrency tasks are checking or
\* sleeping, so never the slot of a holder whose politeness sleep is on.
C23_PoliteBeforeRelease ==
    /\ [](phase = "batch" =>
            /\ Cardinality(Holders) <= cfg.concurrency
            /\ sem = cfg.concurrency - Cardinality(Holders)
            /\ \A t \in Tasks : task[t].pc = "polite" => task[t].result # NoResult)
    /\ [][phase = "batch" =>
            \A t \in Tasks :
               /\ ReturnsIn(t) => task'[t].pc = "polite" /\ sem' = sem
               /\ LeavesIn(t) => task[t].pc = "polite" /\ sem' = sem + 1
               /\ AcquiresIn(t) => Cardinality(Holders) < cfg.concurrency]_vars

\* the single slot is held by a link whose probe has returned and whose
\* politeness sleep is on, and the next link waits
C23_Witness ==
    /\ phase = "batch" /\ cfg.concurrency = 1
    /\ Len(task) = 2
    /\ task[1].pc = "polite" /\ task[1].path = "probe"
    /\ task[2].pc = "wait"
    /\ sem = 0


\* two positions of the batch hold the same link, the second one later
Twins(t1, t2) == t1 < t2 /\ task[t1].link = task[t2].link

\* C24: with concurrency 1 and no internal fault the later occurrence of a
\* link that no policy answers is a cache hit; and whenever a link was
\* stored more than once, by checks of the same batch that all missed the
\* cache, the entry of the cache is the result of the last check that
\* returned.  The interleaving with two probes of one link is the witness.
C24_DuplicateInBatch ==
    /\ (cfg.concurrency = 1 /\ ~faulted) =>
          \A t1, t2 \in Tasks :
             (Twins(t1, t2) /\ NoPolicy(task[t2].link) /\ Started(t2)) =>
                 /\ task[t2].path = "hit"
                 /\ task[t2].probes = 0
    /\ \A u \in DOMAIN link_cache :
          /\ u \in DOMAIN lastRet
          /\ SameClass(link_cache[u], lastRet[u])

\* with concurrency 2 both checks of the link missed the cache and probed;
\* they returned different results and the cache holds the later one
C24_Witness ==
    /\ phase = "idle" /\ cfg.concurrency >= 2
    /\ Len(task) = 2 /\ Twins(1, 2) /\ NoPolicy(task[1].link)
    /\ ~task[1].cachedAtStart
    /\ task[1].path = "probe" /\ task[2].path = "probe"
    /\ task[1].probes > 0 /\ task[2].probes > 0
    /\ stats.total_links_checked = task[1].stats0.total_links_checked + 2
    /\ ~SameClass(task[1].result, task[2].result)
    /\ SameClass(link_cache[task[1].link], lastRet[task[1].link])
    /\ SameClass(link_cache[task[1].link], task[1].result)

\* the counter that a call increments on the path it took
PathCounter(path) ==
    CASE path = "auto"  -> "links_auto_broken"
      [] path = "skip"  -> "links_skipped"
      [] path = "hit"   -> "cache_hits"
      [] path = "probe" -> "total_links_checked"

CallCounters == {"links_auto_broken", "links_skipped", "cache_hits", "total_links_checked"}

CallCounterSum ==
    stats.links_auto_broken + stats.links_skipped + stats.cache_hits
        + stats.total_links_checked

\* C25: the first step of every call increments the counter of its path by
\* one and leaves the other three alone, and the four counters add up to
\* the calls that have started: the links handed to check_links_batch so
\* far less those that still wait for a slot.
C25_CountersComplete ==
    /\ \A t \in Tasks : Started(t) =>
          \A c \in CallCounters :
             task[t].stats1[c] =
                 task[t].stats0[c] + (IF c = PathCounter(task[t].path) THEN 1 ELSE 0)
    /\ CallCounterSum = dispatched - Cardinality({t \in Tasks : task[t].pc = "wait"})

\* three calls took three different paths, two of them in one batch
C25_Witness ==
    /\ phase = "idle" /\ cfg.concurrency >= 2
    /\ stats.links_auto_broken = 1 /\ stats.cache_hits = 1 /\ stats.total_links_checked = 1
    /\ dispatched = 3


\* the records of recs stand in the order of the positions of their links
InListOrder(recs) ==
    \A i, j \in 1..Len(recs) : i < j => recs[i].idx < recs[j].idx

\* C26: the records check_links_batch returns are those of the broken links
\* of its list, in the order of the list, whatever the order in which the
\* checks returned; in self.results the records of a post processed
\* earlier stand before those of a post processed later, each post's in
\* the order of its links.
C26_RecordOrder ==
    /\ phase = "idle" =>
          /\ InListOrder(broken_records)
          /\ \A i \in 1..Len(broken_records) :
                /\ broken_records[i].idx \in Tasks
                /\ broken_records[i].broken_link = task[broken_records[i].idx].link
    /\ \A i, j \in 1..Len(results) :
          i < j => \/ results[i].post_url < results[j].post_url
                   \/ /\ results[i].post_url = results[j].post_url
                      /\ results[i].idx < results[j].idx

\* the second post's batch returned two records in list order although
\* the check of its second link (auto-broken) returned before the probe of
\* its first; the record of the first post stands before them
C26_Witness ==
    /\ phase = "idle" /\ via = "post" /\ cfg.concurrency >= 2
    /\ Len(results) = 3 /\ Len(broken_records) = 2
    /\ results[1].post_url < results[2].post_url
    /\ results[2] = broken_records[1] /\ results[3] = broken_records[2]
    /\ task[1].path = "probe" /\ task[1].probes > 0
    /\ task[2].path = "auto"


\* the link at position i of the batch waits for a slot / has taken one
Waits(i) == phase = "batch" /\ i \in Tasks /\ task[i].pc = "wait"
Admitted(i) == i \in Tasks /\ task[i].pc # "wait"

\* C27: when every probe attempt returns, every batch that has started
\* returns, every link that waits for a slot gets one, and when the batch
\* has returned every slot is free again, also those of the checks that
\* ended with an internal fault.
C27_BatchCompletes ==
    /\ (phase = "batch") ~> (phase = "idle")
    /\ \A i \in 1..MaxLinks : Waits(i) ~> Admitted(i)
    /\ [](phase = "idle" /\ task # << >> =>
            /\ sem = cfg.concurrency
            /\ \A t \in Tasks : Settled(t))

\* a batch has returned in which the first check ended with an internal
\* fault and the link that waited behind it on the single slot was checked
C27_Witness ==
    /\ phase = "idle" /\ cfg.concurrency = 1
    /\ Len(task) = 2
    /\ task[1].pc = "fault"
    /\ task[2].pc = "done" /\ Started(2)
    /\ sem = 1


\* run_async stands between two posts, or has finished
BatchBoundary == run.pc \in {"loop", "finished"}

\* C28: broken_links lies between links_auto_broken and links_auto_broken
\* plus total_links_checked at all times: the step that answers a check by
\* the policy or the cache increments it for an auto-broken link only.
\* Between two posts of a run without internal fault self.results holds
\* one record for each count of broken_links and one for each cache hit
\* that returned a broken entry.
C28_RecordsAccounted ==
    /\ stats.links_auto_broken <= stats.broken_links
    /\ stats.broken_links <= stats.links_auto_broken + stats.total_links_checked
    /\ \A t \in Tasks : Started(t) =>
          task[t].stats1.broken_links =
              task[t].stats0.broken_links + (IF task[t].path = "auto" THEN 1 ELSE 0)
    /\ (BatchBoundary /\ ~faulted) =>
          Len(results) = stats.broken_links + run.broken_hits

\* two posts with the same two links: the first adds a probed and an
\* auto-broken record, the second a cached and an auto-broken one
C28_Witness ==
    /\ run.pc = "finished" /\ ~faulted
    /\ Len(results) = 4
    /\ stats.broken_links = 3 /\ stats.links_auto_broken = 2
    /\ stats.cache_hits = 1 /\ run.broken_hits = 1


\* C29: in a run without internal fault whose posts list each link once,
\* a link is probed only by the first check of it in the run; a check of a
\* link that no policy answers and that an earlier check has returned for
\* is a cache hit without probe; and between two posts
\* total_links_checked is the number of keys of link_cache.
C29_ProbedOncePerRun ==
    ~faulted =>
        /\ \A t \in Tasks :
              /\ task[t].path = "probe" => task[t].first /\ ~task[t].cachedAtStart
              /\ (Started(t) /\ NoPolicy(task[t].link) /\ task[t].priorDone) =>
                     /\ task[t].path = "hit"
                     /\ task[t].probes = 0
        /\ Cardinality(DOMAIN link_cache) <= stats.total_links_checked
        /\ BatchBoundary => stats.total_links_checked = Cardinality(DOMAIN link_cache)

\* two posts link to the same url: the first post probed it, found it
\* alive and stored it, the second was answered from the cache
C29_Witness ==
    /\ run.pc = "finished" /\ ~faulted
    /\ Len(run.log) = 2
    /\ run.log[1].post # run.log[2].post
    /\ \E u \in DOMAIN link_cache :
          /\ ~link_cache[u].is_broken
          /\ \E i \in 1..Len(run.log[1].links) : run.log[1].links[i] = u
          /\ \E i \in 1..Len(run.log[2].links) : run.log[2].links[i] = u
    /\ stats.total_links_checked = 1 /\ stats.cache_hits = 1


\* the check of task t, on the probe path, returns in this step
ProbeReturnsIn(t) ==
    /\ phase = "batch"
    /\ task[t].path = "probe" /\ task[t].pc \in {"probe", "backoff"}
    /\ task'[t].pc = "polite"

\* the keys whose entry this step adds or replaces
Written == {u \in DOMAIN link_cache' : u \notin DOMAIN link_cache \/ link_cache'[u] # link_cache[u]}

\* a step in which checks start and the policy or the cache answers them
\* all: no probe has started and none has returned
AnsweredOnly ==
    /\ stats'.total_links_checked = stats.total_links_checked
    /\ \/ stats'.links_auto_broken # stats.links_auto_broken
       \/ stats'.links_skipped # stats.links_skipped
       \/ stats'.cache_hits # stats.cache_hits

\* C30: every key of link_cache is a url that no policy answers and every
\* entry has from_cache = false; no step removes a key; a step that adds or
\* replaces an entry is the return of a probe-path check of that url; and
\* a step in which checks are answered by the policy or by the cache
\* leaves link_cache as it was.
C30_CacheWrittenByProbe ==
    /\ [](\A u \in DOMAIN link_cache : NoPolicy(u) /\ ~link_cache[u].from_cache)
    /\ [][ /\ DOMAIN link_cache \subseteq DOMAIN link_cache'
           /\ \A u \in Written :
                 \E t \in Tasks : task[t].link = u /\ ProbeReturnsIn(t)
           /\ AnsweredOnly => link_cache' = link_cache ]_vars

\* three urls were checked, one auto-broken, one skipped and one probed,
\* and the cache holds the probed one only
C30_Witness ==
    /\ phase = "idle"
    /\ stats.links_auto_broken = 1 /\ stats.links_skipped = 1
    /\ Cardinality(started) = 3
    /\ Cardinality(DOMAIN link_cache) = 1
    /\ \A u \in DOMAIN link_cache : NoPolicy(u)

====
